---------------------------- MODULE Spec2Model ----------------------------
(***************************************************************************)
(* The add-context CLI (src/.opencode/skills/add-context/scripts/          *)
(* add-context-cli.ts): parse / review / wizard / render / validate /      *)
(* persist of technical-domain.md and navigation.md.                       *)
(*                                                                         *)
(* Text.  A string (Str) is a sequence of symbols.  A symbol is a single   *)
(* character ("|", " ", "#", "-", ".", a digit, a letter, "\n") or a word  *)
(* of the generator's fixed vocabulary written as one symbol ("Framework", *)
(* "Version:", "---").  Every test the code makes on text           *)
(* (startsWith, includes, split, trim, the regular expressions) is made    *)
(* here on symbol sequences.  A document is kept as the sequence of its    *)
(* lines, i.e. as content.split('\n').                                     *)
(***************************************************************************)
EXTENDS Integers, Sequences, FiniteSets, TLC

Null == [null |-> TRUE]

(***************************************************************************)
(* String primitives of the JavaScript runtime that the code uses.         *)
(***************************************************************************)
IsWS(c) == c \in {" ", "\n"}

Digits == {"0", "1", "2", "3", "4", "5", "6", "7", "8", "9"}

DigitVal(c) ==
  CASE c = "0" -> 0 [] c = "1" -> 1 [] c = "2" -> 2 [] c = "3" -> 3
    [] c = "4" -> 4 [] c = "5" -> 5 [] c = "6" -> 6 [] c = "7" -> 7
    [] c = "8" -> 8 [] c = "9" -> 9

DigitChar(d) ==
  CASE d = 0 -> "0" [] d = 1 -> "1" [] d = 2 -> "2" [] d = 3 -> "3"
    [] d = 4 -> "4" [] d = 5 -> "5" [] d = 6 -> "6" [] d = 7 -> "7"
    [] d = 8 -> "8" [] d = 9 -> "9"

RECURSIVE trimStart(_)
trimStart(s) == IF s # <<>> /\ IsWS(Head(s)) THEN trimStart(Tail(s)) ELSE s

RECURSIVE trimEnd(_)
trimEnd(s) ==
  IF s # <<>> /\ IsWS(s[Len(s)]) THEN trimEnd(SubSeq(s, 1, Len(s) - 1)) ELSE s

trim(s) == trimEnd(trimStart(s))

startsWith(s, p) == Len(s) >= Len(p) /\ SubSeq(s, 1, Len(p)) = p

\* the positions at which p occurs in s
Occ(s, p) == {i \in 1..(Len(s) - Len(p) + 1) : SubSeq(s, i, i + Len(p) - 1) = p}

includes(s, p) == Occ(s, p) # {}

SetMin(S) == CHOOSE x \in S : \A y \in S : x <= y
SetMax(S) == CHOOSE x \in S : \A y \in S : x >= y

\* s.split(sep) for a one-symbol separator
RECURSIVE split(_, _)
split(s, sep) ==
  LET at == {i \in 1..Len(s) : s[i] = sep}
  IN IF at = {} THEN <<s>>
     ELSE LET i == SetMin(at)
          IN <<SubSeq(s, 1, i - 1)>> \o split(SubSeq(s, i + 1, Len(s)), sep)

\* lines.join('\n') read back as lines: an element that holds "\n" symbols
\* contributes one line per piece (halving keeps the evaluation shallow)
RECURSIVE joinLinesIn(_, _, _)
joinLinesIn(elems, lo, hi) ==
  IF lo > hi THEN <<>>
  ELSE IF lo = hi THEN split(elems[lo], "\n")
  ELSE LET mid == (lo + hi) \div 2
       IN joinLinesIn(elems, lo, mid) \o joinLinesIn(elems, mid + 1, hi)

joinLines(elems) == joinLinesIn(elems, 1, Len(elems))

\* pieces.join('\n') as one string
RECURSIVE join(_)
join(pieces) ==
  IF pieces = <<>> THEN <<>>
  ELSE IF Len(pieces) = 1 THEN pieces[1]
  ELSE pieces[1] \o <<"\n">> \o join(Tail(pieces))

LowerOf(c) ==
  CASE c = "Y" -> "y"
    [] c = "N" -> "n"
    [] c = "SKIP" -> "skip"
    [] c = "Skip" -> "skip"
    [] c = "Framework" -> "framework"
    [] c = "Language" -> "language"
    [] c = "Database" -> "database"
    [] c = "Styling" -> "styling"
    [] c = "Files" -> "files"
    [] c = "Components" -> "components"
    [] c = "Functions" -> "functions"
    [] c = "Layer" -> "layer"
    [] c = "Type" -> "type"
    [] OTHER -> c

toLowerCase(s) == [i \in 1..Len(s) |-> LowerOf(s[i])]

\* Number.prototype.toString for an integer
RECURSIVE NatStr(_)
NatStr(n) == IF n < 10 THEN <<DigitChar(n)>> ELSE NatStr(n \div 10) \o <<DigitChar(n % 10)>>

NumStr(n) == IF n < 0 THEN <<"-">> \o NatStr(-n) ELSE NatStr(n)

RECURSIVE DigitsVal(_, _)
DigitsVal(s, acc) ==
  IF s = <<>> \/ Head(s) \notin Digits THEN acc
  ELSE DigitsVal(Tail(s), 10 * acc + DigitVal(Head(s)))

\* parseInt(s, 10): leading white space, an optional sign, then the longest
\* run of digits; NaN when there is no digit
parseInt(s) ==
  LET t == trimStart(s)
      neg == t # <<>> /\ Head(t) = "-"
      u == IF t # <<>> /\ Head(t) \in {"-", "+"} THEN Tail(t) ELSE t
  IN IF u = <<>> \/ Head(u) \notin Digits THEN [nan |-> TRUE, val |-> 0]
     ELSE [nan |-> FALSE, val |-> IF neg THEN 0 - DigitsVal(u, 0) ELSE DigitsVal(u, 0)]

\* parseInt(x, 10) || 0, with x possibly undefined (a missing component)
parseIntOr0(parts, i) ==
  IF i > Len(parts) THEN 0
  ELSE LET r == parseInt(parts[i]) IN IF r.nan THEN 0 ELSE r.val

\* a variant that carries into major when minor + 1 reaches 10
incrementVersionMutCarry(version) ==
  LET parts == split(version, ".")
      major == parseIntOr0(parts, 1)
      minor == parseIntOr0(parts, 2)
  IN IF minor + 1 = 10
     THEN NumStr(major + 1) \o <<".">> \o NumStr(0)
     ELSE NumStr(major) \o <<".">> \o NumStr(minor + 1)

incrementVersion(version) ==
  LET parts == split(version, ".")
      major == parseIntOr0(parts, 1)
      minor == parseIntOr0(parts, 2)
  IN NumStr(major) \o <<".">> \o NumStr(minor + 1)


(***************************************************************************)
(* ProjectIntelligence records.  techStack and naming are Null or a record *)
(* of four strings; a pattern is Null or [text |-> string].                *)
(***************************************************************************)
Pat(s) == [text |-> s]

\* JavaScript truthiness of a pattern: null and '' are falsy
Truthy(p) == p # Null /\ p.text # <<>>

\* x || null for a string x
OrNull(s) == IF s = <<>> THEN Null ELSE Pat(s)

EmptyTechStack == [framework |-> <<>>, language |-> <<>>, database |-> <<>>, styling |-> <<>>]

EmptyNaming == [database |-> <<>>, files |-> <<>>, components |-> <<>>, functions |-> <<>>]

\* the object literal of parseTechnicalDomain, runWizard and updateTechStackOnly
NewRecord(today) ==
  [version |-> <<"1", ".", "0">>, updated |-> today, techStack |-> Null,
   apiPattern |-> Null, componentPattern |-> Null, naming |-> Null,
   standards |-> <<>>, security |-> <<>>]

(***************************************************************************)
(* Fixed text of the generated document.                                   *)
(***************************************************************************)
FM_Context == <<"<!--", " ", "Context:", " ">>
FM_Priority == <<" ", "|", " ", "Priority:", " ">>
FM_Version == <<" ", "|", " ", "Version:", " ">>
FM_Updated == <<" ", "|", " ", "Updated:", " ">>
FM_End == <<" ", "-->">>

H2(title) == <<"#", "#", " ", title>>
H3(title) == <<"#", "#", "#", " ", title>>
Rule == <<"---">>
\* the three back-quotes of a code fence, written ''' (one symbol)
Fence == <<"'''">>

StackRow(layer, value) ==
  <<"|", " ", layer, " ", "|", " ">> \o value \o <<" ", "|", " ", "|", " ", "|">>

NamingRow(type, value) ==
  <<"|", " ", type, " ", "|", " ">> \o value \o <<" ", "|", " ", "|">>

Bullets(items) == [i \in 1..Len(items) |-> <<"-", " ">> \o items[i]]

generateTechnicalDomain(data) ==
  joinLines(
    << FM_Context \o <<"project-intelligence/technical">> \o FM_Priority
         \o <<"critical">> \o FM_Version \o data.version \o FM_Updated
         \o data.updated \o FM_End,
       <<>>,
       <<"#", " ", "Technical Domain">>,
       <<>>,
       <<"**Purpose**:", " ", "Tech stack, architecture, development patterns for this project.">>,
       <<"**Last Updated**:", " ">> \o data.updated,
       <<>>,
       Rule,
       <<>>,
       H2("Quick Reference"),
       <<"**Update Triggers**:", " ", "Tech stack changes | New patterns | Architecture decisions">>,
       <<"**Audience**:", " ", "Developers, AI agents">>,
       <<>>,
       Rule,
       <<>>,
       H2("Primary Stack"),
       <<"|", " ", "Layer", " ", "|", " ", "Technology", " ", "|", " ", "Version", " ", "|", " ", "Rationale", " ", "|">>,
       <<"|", "-------", "|", "-----------", "|", "---------", "|", "-----------", "|">> >>
    \o (IF data.techStack # Null
        THEN << StackRow("Framework", data.techStack.framework),
                StackRow("Language", data.techStack.language),
                StackRow("Database", data.techStack.database),
                StackRow("Styling", data.techStack.styling) >>
        ELSE <<>>)
    \o << <<>>, Rule, <<>>, H2("Code Patterns") >>
    \o (IF Truthy(data.apiPattern)
        THEN << H3("API Endpoint"), Fence \o <<"typescript">>, data.apiPattern.text, Fence, <<>> >>
        ELSE <<>>)
    \o (IF Truthy(data.componentPattern)
        THEN << H3("Component"), Fence \o <<"typescript">>, data.componentPattern.text, Fence, <<>> >>
        ELSE <<>>)
    \o << Rule,
          <<>>,
          H2("Naming Conventions"),
          <<"|", " ", "Type", " ", "|", " ", "Convention", " ", "|", " ", "Example", " ", "|">>,
          <<"|", "------", "|", "-----------", "|", "---------", "|">> >>
    \o (IF data.naming # Null
        THEN << NamingRow("Files", data.naming.files),
                NamingRow("Components", data.naming.components),
                NamingRow("Functions", data.naming.functions),
                NamingRow("Database", data.naming.database) >>
        ELSE <<>>)
    \o << <<>>, Rule, <<>>, H2("Code Standards") >>
    \o Bullets(data.standards)
    \o << <<>>, Rule, <<>>, H2("Security Requirements") >>
    \o Bullets(data.security)
    \o << <<>>,
          Rule,
          <<>>,
          H2("(folder) Codebase References"),
          <<"**Implementation**:", " ", "'src/' - Application source code">>,
          <<"**Config**:", " ", "package.json, tsconfig.json">>,
          <<>>,
          Rule,
          <<>>,
          H2("Related Files"),
          <<"-", " ", "Business Domain (example: business-domain.md)">>,
          <<"-", " ", "Decisions Log (example: decisions-log.md)">> >>)

generateNavigation ==
  << <<"#", " ", "Project Intelligence">>,
     <<>>,
     <<"|", " ", "File", " ", "|", " ", "Description", " ", "|", " ", "Priority", " ", "|">>,
     <<"|", "------", "|", "-------------", "|", "----------", "|">>,
     <<"|", " ", "technical-domain.md", " ", "|", " ", "Tech stack & patterns", " ", "|", " ", "critical", " ", "|">> >>


(***************************************************************************)
(* The two frontmatter regular expressions.  '.' does not match a line     *)
(* break, so a match lies within one line.                                 *)
(***************************************************************************)
\* the (i, j, k, l, m) at which the five literals of
\* /<!-- Context: .* \| Priority: .* \| Version: .* \| Updated: .* -->/ can sit
After(line, lit, from) == {p \in Occ(line, lit) : p >= from}

UpdatedEnds(line, l) == After(line, FM_End, l + Len(FM_Updated))

UpdatedAts(line, k) ==
  {l \in After(line, FM_Updated, k + Len(FM_Version)) : UpdatedEnds(line, l) # {}}

VersionAts(line, j) ==
  {k \in After(line, FM_Version, j + Len(FM_Priority)) : UpdatedAts(line, k) # {}}

PriorityAts(line, i) ==
  {j \in After(line, FM_Priority, i + Len(FM_Context)) : VersionAts(line, j) # {}}

ContextAts(line) == {i \in Occ(line, FM_Context) : PriorityAts(line, i) # {}}

FrontmatterLine(line) == ContextAts(line) # {}

\* the captures of /... \| Version: (.*?) \| Updated: (.*?) -->/ in a matching
\* line: leftmost start, the two '.*' greedy, the two '(.*?)' lazy
FrontmatterCaptures(line) ==
  LET i == SetMin(ContextAts(line))
      j == SetMax(PriorityAts(line, i))
      k == SetMax(VersionAts(line, j))
      l == SetMin(UpdatedAts(line, k))
      m == SetMin(UpdatedEnds(line, l))
  IN [version |-> SubSeq(line, k + Len(FM_Version), l - 1),
      updated |-> SubSeq(line, l + Len(FM_Updated), m - 1)]

\* /Version: (\d+\.\d+)/ within a line
VersionPattern(line) ==
  \E i \in Occ(line, <<"Version:", " ">>) :
    \E d \in 1..Len(line) :
      /\ i + 2 + d + 1 <= Len(line)
      /\ \A q \in (i + 2)..(i + 1 + d) : line[q] \in Digits
      /\ line[i + 2 + d] = "."
      /\ line[i + 2 + d + 1] \in Digits

\* a variant whose Purpose rule looks for the colon inside the bold marks
LineHasMutPurpose(rule, line) ==
  CASE rule = "frontmatter" -> FrontmatterLine(line)
    [] rule = "purpose" -> includes(line, <<"**Purpose:**">>)
    [] rule = "lastUpdated" -> includes(line, <<"**Last Updated**:">>)
    [] rule = "codebaseRefs" -> includes(line, <<"(folder) Codebase References">>)
    [] rule = "priority" -> includes(line, <<"Priority:", " ", "critical">>)
    [] rule = "version" -> VersionPattern(line)

\* the test each rule of the validator, and the parser's frontmatter match,
\* makes of the text: content.match(...) or content.includes(...)
LineHas(rule, line) ==
  CASE rule = "frontmatter" -> FrontmatterLine(line)
    [] rule = "purpose" -> includes(line, <<"**Purpose**:">>)
    [] rule = "lastUpdated" -> includes(line, <<"**Last Updated**:">>)
    [] rule = "codebaseRefs" -> includes(line, <<"(folder) Codebase References">>)
    [] rule = "priority" -> includes(line, <<"Priority:", " ", "critical">>)
    [] rule = "version" -> VersionPattern(line)

SomeLine(content, rule) == \E n \in 1..Len(content) : LineHas(rule, content[n])

(***************************************************************************)
(* validateTechnicalDomain: the rules are tested in this order and every   *)
(* violated rule is pushed on errors.                                      *)
(***************************************************************************)
MviLineLimit == 200

\* a variant that stops at the first violated rule of two of the rules
ErrorsMutFirstOnly(content) ==
  IF Len(content) > MviLineLimit THEN <<"lines">>
  ELSE IF ~SomeLine(content, "version") THEN <<"version">>
  ELSE <<>>

\* a variant whose line rule fires at the limit itself
ErrorsMutAtLimit(content) ==
     (IF Len(content) >= MviLineLimit THEN <<"lines">> ELSE <<>>)
  \o (IF ~SomeLine(content, "frontmatter") THEN <<"frontmatter">> ELSE <<>>)
  \o (IF ~SomeLine(content, "purpose") THEN <<"purpose">> ELSE <<>>)
  \o (IF ~SomeLine(content, "lastUpdated") THEN <<"lastUpdated">> ELSE <<>>)
  \o (IF ~SomeLine(content, "codebaseRefs") THEN <<"codebaseRefs">> ELSE <<>>)
  \o (IF ~SomeLine(content, "priority") THEN <<"priority">> ELSE <<>>)
  \o (IF ~SomeLine(content, "version") THEN <<"version">> ELSE <<>>)

\* a variant without the frontmatter rule
ErrorsMutNoFrontmatter(content) ==
     (IF Len(content) > MviLineLimit THEN <<"lines">> ELSE <<>>)
  \o (IF ~SomeLine(content, "purpose") THEN <<"purpose">> ELSE <<>>)
  \o (IF ~SomeLine(content, "lastUpdated") THEN <<"lastUpdated">> ELSE <<>>)
  \o (IF ~SomeLine(content, "codebaseRefs") THEN <<"codebaseRefs">> ELSE <<>>)
  \o (IF ~SomeLine(content, "priority") THEN <<"priority">> ELSE <<>>)
  \o (IF ~SomeLine(content, "version") THEN <<"version">> ELSE <<>>)

Errors(content) ==
     (IF Len(content) > MviLineLimit THEN <<"lines">> ELSE <<>>)
  \o (IF ~SomeLine(content, "frontmatter") THEN <<"frontmatter">> ELSE <<>>)
  \o (IF ~SomeLine(content, "purpose") THEN <<"purpose">> ELSE <<>>)
  \o (IF ~SomeLine(content, "lastUpdated") THEN <<"lastUpdated">> ELSE <<>>)
  \o (IF ~SomeLine(content, "codebaseRefs") THEN <<"codebaseRefs">> ELSE <<>>)
  \o (IF ~SomeLine(content, "priority") THEN <<"priority">> ELSE <<>>)
  \o (IF ~SomeLine(content, "version") THEN <<"version">> ELSE <<>>)

validateTechnicalDomain(content) ==
  [valid |-> Len(Errors(content)) = 0, errors |-> Errors(content)]

(***************************************************************************)
(* parseTechnicalDomain: the frontmatter match and the four line loops.    *)
(***************************************************************************)
parseFrontmatter(content, data) ==
  IF SomeLine(content, "frontmatter")
  THEN LET n == SetMin({q \in 1..Len(content) : FrontmatterLine(content[q])})
           c == FrontmatterCaptures(content[n])
       IN [data EXCEPT !.version = c.version, !.updated = c.updated]
  ELSE data

\* line.split('|').map(p => p.trim()).filter(p => p)
RowParts(line) ==
  LET cells == split(line, "|")
  IN SelectSeq([q \in 1..Len(cells) |-> trim(cells[q])], LAMBDA c : c # <<>>)

StackMinParts == 4
NamingMinParts == 3

StackRowInto(techStack, parts) ==
  LET layer == toLowerCase(parts[1])
      technology == parts[2]
      ts == IF techStack = Null THEN EmptyTechStack ELSE techStack
  IN CASE layer = <<"framework">> -> [ts EXCEPT !.framework = technology]
       [] layer = <<"language">> -> [ts EXCEPT !.language = technology]
       [] layer = <<"database">> -> [ts EXCEPT !.database = technology]
       [] layer = <<"styling">> -> [ts EXCEPT !.styling = technology]
       [] OTHER -> ts

\* st = [inTable, techStack]: one pass of the tech stack loop
StackStep(st, raw) ==
  LET line == trim(raw)
  IN IF startsWith(line, H2("Primary Stack")) THEN [st EXCEPT !.inTable = TRUE]
     ELSE IF st.inTable /\ startsWith(line, <<"#", "#">>) THEN [st EXCEPT !.inTable = FALSE]
     ELSE IF st.inTable /\ startsWith(line, <<"|">>)
     THEN LET parts == RowParts(line)
          IN IF Len(parts) >= StackMinParts /\ ~includes(parts[1], <<"Layer">>)
             THEN [st EXCEPT !.techStack = StackRowInto(@, parts)]
             ELSE st
     ELSE st

NamingRowInto(naming, parts) ==
  LET type == toLowerCase(parts[1])
      convention == parts[2]
      nm == IF naming = Null THEN EmptyNaming ELSE naming
  IN CASE type = <<"files">> -> [nm EXCEPT !.files = convention]
       [] type = <<"components">> -> [nm EXCEPT !.components = convention]
       [] type = <<"functions">> -> [nm EXCEPT !.functions = convention]
       [] type = <<"database">> -> [nm EXCEPT !.database = convention]
       [] OTHER -> nm

\* st = [inTable, naming]: one pass of the naming loop
NamingStep(st, raw) ==
  LET line == trim(raw)
  IN IF startsWith(line, H2("Naming Conventions")) THEN [st EXCEPT !.inTable = TRUE]
     ELSE IF st.inTable /\ startsWith(line, <<"#", "#">>) THEN [st EXCEPT !.inTable = FALSE]
     ELSE IF st.inTable /\ startsWith(line, <<"|">>)
     THEN LET parts == RowParts(line)
          IN IF Len(parts) >= NamingMinParts /\ ~includes(parts[1], <<"Type">>)
             THEN [st EXCEPT !.naming = NamingRowInto(@, parts)]
             ELSE st
     ELSE st

\* st = [inCodeBlock, currentPattern, patternType, api, component]: one pass
\* of the code pattern loop (the line is not trimmed here)
PatternStep(st, line) ==
  IF startsWith(line, H3("API Endpoint")) THEN [st EXCEPT !.patternType = "api"]
  ELSE IF startsWith(line, H3("Component")) THEN [st EXCEPT !.patternType = "component"]
  ELSE IF startsWith(line, Fence)
  THEN IF ~st.inCodeBlock
       THEN [st EXCEPT !.inCodeBlock = TRUE, !.currentPattern = <<>>]
       ELSE [st EXCEPT !.inCodeBlock = FALSE,
                       !.api = IF st.patternType = "api"
                               THEN Pat(trim(st.currentPattern)) ELSE @,
                       !.component = IF st.patternType = "component"
                                     THEN Pat(trim(st.currentPattern)) ELSE @]
  ELSE IF st.inCodeBlock THEN [st EXCEPT !.currentPattern = @ \o line \o <<"\n">>]
  ELSE st

\* st = [inStandards, inSecurity, standards, security]: one pass of the
\* bullet loop
BulletStep(st, raw) ==
  LET line == trim(raw)
  IN IF startsWith(line, H2("Code Standards"))
     THEN [st EXCEPT !.inStandards = TRUE, !.inSecurity = FALSE]
     ELSE IF startsWith(line, H2("Security Requirements"))
     THEN [st EXCEPT !.inSecurity = TRUE, !.inStandards = FALSE]
     ELSE IF startsWith(line, <<"#", "#", " ">>) /\ (st.inStandards \/ st.inSecurity)
     THEN [st EXCEPT !.inStandards = FALSE, !.inSecurity = FALSE]
     ELSE IF startsWith(line, <<"-", " ">>)
     THEN LET item == SubSeq(line, 3, Len(line))
          IN [st EXCEPT !.standards = IF st.inStandards THEN Append(@, item) ELSE @,
                        !.security = IF st.inSecurity THEN Append(@, item) ELSE @]
     ELSE st

\* for (let i = 0; i < lines.length; i++) Step: the lines lo..hi in order.
\* The range is halved, and the first half is evaluated before the second
\* starts, which keeps the evaluation shallow.
LoopStep(loop, st, line) ==
  CASE loop = "techStack" -> StackStep(st, line)
    [] loop = "patterns" -> PatternStep(st, line)
    [] loop = "naming" -> NamingStep(st, line)
    [] loop = "bullets" -> BulletStep(st, line)

RECURSIVE ForLines(_, _, _, _, _)
ForLines(loop, lines, lo, hi, st) ==
  IF lo > hi THEN st
  ELSE IF lo = hi THEN LoopStep(loop, st, lines[lo])
  ELSE LET mid == (lo + hi) \div 2
           first == ForLines(loop, lines, lo, mid, st)
       IN IF first = first THEN ForLines(loop, lines, mid + 1, hi, first) ELSE first

parseTechnicalDomain(content, today) ==
  LET n == Len(content)
      fm == parseFrontmatter(content, NewRecord(today))
      tb == ForLines("techStack", content, 1, n, [techStack |-> Null, inTable |-> FALSE])
      pt == ForLines("patterns", content, 1, n,
              [patternType |-> "", api |-> Null, component |-> Null,
               inCodeBlock |-> FALSE, currentPattern |-> <<>>])
      nt == ForLines("naming", content, 1, n, [naming |-> Null, inTable |-> FALSE])
      bl == ForLines("bullets", content, 1, n,
              [standards |-> <<>>, security |-> <<>>,
               inStandards |-> FALSE, inSecurity |-> FALSE])
  IN [version |-> fm.version,
      updated |-> fm.updated,
      techStack |-> tb.techStack,
      apiPattern |-> pt.api,
      componentPattern |-> pt.component,
      naming |-> nt.naming,
      standards |-> bl.standards,
      security |-> bl.security]


(***************************************************************************)
(* Input.  question() resolves with the typed line trimmed; multilineInput *)
(* and listInput read typed lines up to their terminating line.            *)
(***************************************************************************)
question(typed) == trim(typed)

\* the line that ends the input (the model's typed inputs all hold one)
MultilineEnds(line) == line = <<"---END---">> \/ line = <<>>

ListEnds(line) == trim(line) = <<>> \/ line = <<"---END---">>

multilineInput(typed) == join(SubSeq(typed, 1, SetMin({k \in 1..Len(typed) : MultilineEnds(typed[k])}) - 1))

listInput(typed) ==
  [i \in 1..(SetMin({k \in 1..Len(typed) : ListEnds(typed[k])}) - 1) |-> trim(typed[i])]

\* a variant that takes every answer for y
IsYesMutAny(answer) == TRUE

\* answer.toLowerCase() === 'y'
IsYes(answer) == toLowerCase(answer) = <<"y">>

IsSkip(answer) == toLowerCase(answer) = <<"skip">>

(***************************************************************************)
(* The inputs of the model: what the user types, the files found at start. *)
(***************************************************************************)
Today == <<"2026-11-01">>
EarlierDay == <<"2026-10-15">>

YesNoTyped == {<<"Y", " ">>, <<"n">>}

MenuTyped == {<<"1">>, <<"2">>, <<"3">>, <<"4">>, <<"x">>}

ChoiceTyped == {<<"1">>, <<"2">>, <<"3">>, <<"x">>}

ExternalTyped == {<<"1">>, <<"2">>, <<"x">>}

\* four answers of askTechStack / askNamingConventions, as typed
StackTyped ==
  { <<<<"Vue">>, <<"Go">>, <<"MySQL">>, <<"Bootstrap", " ">>>>,
    <<<<"Vue">>, <<>>, <<"MySQL">>, <<" ">>>> }

NamingTyped ==
  { <<<<"kebab-case">>, <<"PascalCase">>, <<"camelCase">>, <<"snake_case">>>> }

\* one-line answers to a pattern question
ApiTyped == {<<"SKIP", " ">>, <<>>, <<"fetch", " ", "(", "url", ")">>}

ComponentTyped == {<<"skip">>, <<"Card", " ", "(", ")">>}

\* lines typed into multilineInput
ApiBlobTyped ==
  { <<<<>>>>,
    <<<<"skip">>, <<"---END---">>>>,
    <<<<"if", " ", "(", "x", ")">>, <<" ", " ", "run", "(", ")">>, <<"---END---">>>> }

ComponentBlobTyped == { <<<<"skip">>, <<>>>>, <<<<"Card", " ", "(", ")">>, <<>>>> }

LongListLen == 150

LongList == [i \in 1..(LongListLen + 1) |-> IF i <= LongListLen THEN <<"rule">> ELSE <<>>]

\* lines typed into listInput
StandardsTyped ==
  { <<<<>>>>,
    <<<<" ", "no", " ", "any">>, <<"no", " ", "any">>, <<"---END---">>>>,
    LongList }

SecurityTyped == { <<<<" ">>>>, <<<<"HTTPS", " ", "only", " ">>, <<>>>> }

\* the most sub-prompts of one review that the user answers Update or Remove
MaxReviewChanges == 2

Absent == [content |-> <<>>, exists |-> FALSE]

FileOf(text) == [content |-> text, exists |-> TRUE]

SeedFull ==
  [version |-> <<"1", ".", "3">>, updated |-> EarlierDay,
   techStack |-> [framework |-> <<"Next.js">>, language |-> <<"TypeScript">>,
                  database |-> <<"PostgreSQL">>, styling |-> <<"Tailwind">>],
   apiPattern |-> Pat(<<"export", " ", "POST">>),
   componentPattern |-> Pat(<<"export", " ", "UserCard">>),
   naming |-> [database |-> <<"snake">>, files |-> <<"kebab">>,
               components |-> <<"Pascal">>, functions |-> <<"camel">>],
   standards |-> <<<<"Use", " ", "strict", " ", "mode">>>>,
   security |-> <<<<"Validate", " ", "all", " ", "input">>>>]

SeedSparse == [NewRecord(EarlierDay) EXCEPT !.version = <<"2", ".", "9">>]

SeedBad == [NewRecord(EarlierDay) EXCEPT !.version = <<"b", "a", "d">>]

SeedThree == [NewRecord(EarlierDay) EXCEPT !.version = <<"1", ".", "2", ".", "3">>]

\* the files found at start: no document, or a generated document with or
\* without its navigation.md
StartFiles ==
  {[seed |-> Null, td |-> Absent, nav |-> Absent]}
  \cup {[seed |-> r, td |-> FileOf(generateTechnicalDomain(r)), nav |-> FileOf(generateNavigation)]
          : r \in {SeedFull, SeedBad, SeedThree}}
  \cup {[seed |-> SeedSparse, td |-> FileOf(generateTechnicalDomain(SeedSparse)), nav |-> Absent]}

Flags == {"none", "update", "techStack", "patterns"}

Unasked == <<"(unasked)">>

\* no question of the wizard or of the patterns update answered yet, no choice
\* made at a sub-prompt of the review
NoAnswers ==
  [techStack |-> Unasked, apiPattern |-> Unasked, componentPattern |-> Unasked,
   naming |-> Unasked, standards |-> Unasked, security |-> Unasked, choice |-> Unasked]

(***************************************************************************)
(* State.                                                                  *)
(***************************************************************************)
VARIABLES
  flag,        \* the command-line flag
  pc,          \* the prompt the session waits at, or "main" / "exited"
  exitCode,    \* process.exit(code), meaningful once pc = "exited"
  ending,      \* history: the exit taken, "" while the session runs
  contextDir,  \* whether CONTEXT_DIR exists
  dirBefore,   \* history: whether CONTEXT_DIR existed at start
  mode,        \* the path taken: firstTime, review, addNew, replaceAll, techStack, patterns
  files,       \* CONTEXT_DIR: [td, nav], each [exists, content]
  backup,      \* .tmp/backup/project-intelligence-<timestamp>: [made, td, nav]
  before,      \* history: the files found at start
  seed,        \* history: the record the document found at start was rendered from
  data,        \* the in-flight ProjectIntelligence record
  changes,     \* reviewPatterns' changes list
  answers,     \* history: the answers to runWizard's and updatePatternsOnly's questions, the last review choice
  content,     \* the rendered technical-domain.md
  looksGood,   \* stage5Confirmation's answers
  proceed,
  validation,  \* validateTechnicalDomain's result
  reported,    \* the violated rules printed
  written,     \* history: which target files this session has written
  versionArg,  \* incrementVersion's argument and result, for its own specification
  versionResult,
  databaseInstance,  \* the connection module's singleton, NoConnection for null
  connections,       \* the connections created so far, in order: whether each is open
  calls              \* history: the calls made to the connection module and what each returned

vars == <<flag, pc, exitCode, ending, contextDir, dirBefore, mode, files, backup,
          before, seed, data, changes, answers,
          content, looksGood, proceed, validation, reported, written,
          versionArg, versionResult, databaseInstance, connections, calls>>

\* the connection module: let databaseInstance = null, nothing created yet
NoConnection == 0

dbVars == <<databaseInstance, connections, calls>>

NoDatabase ==
  /\ databaseInstance = NoConnection
  /\ connections = <<>>
  /\ calls = <<>>

Init ==
  /\ flag \in Flags
  /\ \E f \in StartFiles :
       /\ seed = f.seed
       /\ files = [td |-> f.td, nav |-> f.nav]
       /\ before = [td |-> f.td, nav |-> f.nav]
       /\ contextDir \in (IF f.td.exists THEN {TRUE} ELSE BOOLEAN)
  /\ dirBefore = contextDir
  /\ pc = "main"
  /\ exitCode = 0
  /\ ending = ""
  /\ mode = ""
  /\ backup = [td |-> Absent, nav |-> Absent, made |-> FALSE]
  /\ data = Null
  /\ changes = <<>>
  /\ answers = NoAnswers
  /\ content = <<>>
  /\ looksGood = Unasked
  /\ proceed = Unasked
  /\ validation = Null
  /\ reported = <<>>
  /\ written = [td |-> FALSE, nav |-> FALSE]
  /\ versionArg = <<>>
  /\ versionResult = Unasked
  /\ NoDatabase

\* exitWithMessage(message, code) and process.exit(code); why names the call
Exit(why, code) == pc' = "exited" /\ exitCode' = code /\ ending' = why

stage5Vars == <<content, looksGood, proceed, validation, reported>>
fsVars == <<files, backup, written, contextDir>>
histVars == <<flag, before, seed, dirBefore, versionArg, versionResult, dbVars>>

\* main's generateTechnicalDomain(data) and the preview of stage5Confirmation,
\* up to its first prompt
ToStage5(d) ==
  /\ data' = d
  /\ content' = generateTechnicalDomain(d)
  /\ pc' = "looksGood"
  /\ UNCHANGED <<exitCode, ending, looksGood, proceed, validation, reported>>

\* detectExistingIntelligence up to its first prompt
EnterDetect ==
  IF ~files.td.exists
  THEN /\ pc' = "ready"
       /\ mode' = "firstTime"
       /\ UNCHANGED data
  ELSE /\ data' = parseTechnicalDomain(files.td.content, Today)
       /\ pc' = "menu"
       /\ UNCHANGED mode


(***************************************************************************)
(* main, checkExternalContext, detectExistingIntelligence.                 *)
(***************************************************************************)
\* if (!fs.existsSync(CONTEXT_DIR)) ... fs.mkdirSync(CONTEXT_DIR), run when the
\* module loads
EnsureContextDir == contextDir' = TRUE

\* The module's start and main up to the first prompt.  found: whether .tmp/ holds external context
\* files
Main(found) ==
  /\ pc = "main"
  /\ IF flag = "techStack"
     THEN /\ mode' = "techStack"
          /\ pc' = "techStackOnly"
          /\ UNCHANGED <<data, exitCode, ending>>
     ELSE IF flag = "patterns"
     THEN /\ mode' = "patterns"
          /\ IF ~files.td.exists
             THEN Exit("noDocument", 1) /\ UNCHANGED data
             ELSE /\ data' = parseTechnicalDomain(files.td.content, Today)
                  /\ pc' = "patternsApi"
                  /\ UNCHANGED <<exitCode, ending>>
     ELSE IF found
     THEN pc' = "external" /\ UNCHANGED <<mode, data, exitCode, ending>>
     ELSE EnterDetect /\ UNCHANGED <<exitCode, ending>>
  /\ EnsureContextDir
  /\ UNCHANGED <<changes, answers, stage5Vars, files, backup, written, histVars>>

CheckExternalContext(typed) ==
  /\ pc = "external"
  /\ LET choice == question(typed)
     IN IF choice = <<"1">> THEN EnterDetect /\ UNCHANGED <<exitCode, ending>>
        ELSE IF choice = <<"2">> THEN Exit("defer", 0) /\ UNCHANGED <<mode, data>>
        ELSE Exit("invalidChoice", 1) /\ UNCHANGED <<mode, data>>
  /\ UNCHANGED <<changes, answers, stage5Vars, fsVars, histVars>>

\* 'Ready? [y/n]': on 'y' detectExistingIntelligence returns data: null and
\* main leaves with process.exit(0)
Ready(typed) ==
  /\ pc = "ready"
  /\ LET ready == question(typed)
     IN IF ~IsYes(ready) THEN Exit("declined", 0) ELSE Exit("noData", 0)
  /\ UNCHANGED <<mode, data, changes, answers, stage5Vars, fsVars, histVars>>

Menu(typed) ==
  /\ pc = "menu"
  /\ LET choice == question(typed)
     IN IF choice = <<"1">> THEN mode' = "review" /\ pc' = "review1" /\ UNCHANGED <<exitCode, ending>>
        ELSE IF choice = <<"2">> THEN mode' = "addNew" /\ pc' = "wizard1" /\ UNCHANGED <<exitCode, ending>>
        ELSE IF choice = <<"3">> THEN mode' = "replaceAll" /\ pc' = "replaceProceed" /\ UNCHANGED <<exitCode, ending>>
        ELSE IF choice = <<"4">> THEN Exit("cancel", 0) /\ UNCHANGED mode
        ELSE Exit("invalidChoice", 1) /\ UNCHANGED mode
  /\ UNCHANGED <<data, changes, answers, stage5Vars, fsVars, histVars>>

\* a variant that copies a freshly rendered document instead of the one found
BackupMutAfter(fs) == [td |-> FileOf(generateTechnicalDomain(NewRecord(Today))), nav |-> fs.nav, made |-> TRUE]

\* mkdirSync(backupDir) and the two copyFileSync
Backup(fs) == [td |-> fs.td, nav |-> IF fs.nav.exists THEN fs.nav ELSE Absent, made |-> TRUE]

\* a variant that copies the files before it asks
ReplaceProceedMutBackupFirst(typed) ==
  /\ pc = "replaceProceed"
  /\ backup' = Backup(files)
  /\ LET answer == question(typed)
     IN IF ~IsYes(answer)
        THEN Exit("declined", 0) /\ UNCHANGED data
        ELSE /\ data' = NewRecord(Today)
             /\ pc' = "wizard1"
             /\ UNCHANGED <<exitCode, ending>>
  /\ UNCHANGED <<mode, changes, answers, stage5Vars, files, written, contextDir, histVars>>

\* 'Proceed? [y/n]' of Replace all; on 'y' the backup, then runWizard(null)
ReplaceProceed(typed) ==
  /\ pc = "replaceProceed"
  /\ LET answer == question(typed)
     IN IF ~IsYes(answer)
        THEN Exit("declined", 0) /\ UNCHANGED <<data, backup>>
        ELSE /\ backup' = Backup(files)
             /\ data' = NewRecord(Today)
             /\ pc' = "wizard1"
             /\ UNCHANGED <<exitCode, ending>>
  /\ UNCHANGED <<mode, changes, answers, stage5Vars, files, written, contextDir, histVars>>

(***************************************************************************)
(* reviewPatterns: six sub-prompts, then 'Proceed?'.                       *)
(***************************************************************************)
askTechStack(typed) ==
  [framework |-> question(typed[1]), language |-> question(typed[2]),
   database |-> question(typed[3]), styling |-> question(typed[4])]

askNamingConventions(typed) ==
  [database |-> question(typed[4]), files |-> question(typed[1]),
   components |-> question(typed[2]), functions |-> question(typed[3])]

\* one sub-prompt: choice '2' stores the update, '3' the removed value, any
\* other answer keeps
\* a variant that asks again after a choice other than 1, 2 or 3
ReviewStepMutRetry(at, next, typed, field, updatedValue, removedValue) ==
  /\ pc = at
  /\ question(typed) \in {<<"2">>, <<"3">>}
       => Len(SelectSeq(changes, LAMBDA c : c # "Kept")) < MaxReviewChanges
  /\ LET choice == question(typed)
     IN IF choice = <<"2">>
        THEN data' = [data EXCEPT ![field] = updatedValue] /\ changes' = Append(changes, "Updated")
        ELSE IF choice = <<"3">>
        THEN data' = [data EXCEPT ![field] = removedValue] /\ changes' = Append(changes, "Removed")
        ELSE IF choice = <<"1">>
        THEN data' = data /\ changes' = Append(changes, "Kept")
        ELSE data' = data /\ changes' = changes
  /\ answers' = [answers EXCEPT !.choice = question(typed)]
  /\ pc' = (IF question(typed) \in {<<"1">>, <<"2">>, <<"3">>} THEN next ELSE at)
  /\ UNCHANGED <<exitCode, ending, mode, stage5Vars, fsVars, histVars>>

ReviewStep(at, next, typed, field, updatedValue, removedValue) ==
  /\ pc = at
  /\ question(typed) \in {<<"2">>, <<"3">>}
       => Len(SelectSeq(changes, LAMBDA c : c # "Kept")) < MaxReviewChanges
  /\ LET choice == question(typed)
     IN IF choice = <<"2">>
        THEN data' = [data EXCEPT ![field] = updatedValue] /\ changes' = Append(changes, "Updated")
        ELSE IF choice = <<"3">>
        THEN data' = [data EXCEPT ![field] = removedValue] /\ changes' = Append(changes, "Removed")
        ELSE data' = data /\ changes' = Append(changes, "Kept")
  /\ answers' = [answers EXCEPT !.choice = question(typed)]
  /\ pc' = next
  /\ UNCHANGED <<exitCode, ending, mode, stage5Vars, fsVars, histVars>>

ReviewTechStack(typed, stack) ==
  ReviewStep("review1", "review2", typed, "techStack", askTechStack(stack), Null)

ReviewApi(typed, blob) ==
  ReviewStep("review2", "review3", typed, "apiPattern", OrNull(multilineInput(blob)), Null)

ReviewComponent(typed, blob) ==
  ReviewStep("review3", "review4", typed, "componentPattern", OrNull(multilineInput(blob)), Null)

ReviewNaming(typed, naming) ==
  ReviewStep("review4", "review5", typed, "naming", askNamingConventions(naming), Null)

\* a variant that puts the new items before the existing ones
ReviewStandardsMutPrepend(typed, list) ==
  ReviewStep("review5", "review6", typed, "standards", listInput(list) \o data.standards, <<>>)

ReviewStandards(typed, list) ==
  ReviewStep("review5", "review6", typed, "standards", data.standards \o listInput(list), <<>>)

ReviewSecurity(typed, list) ==
  ReviewStep("review6", "reviewProceed", typed, "security", data.security \o listInput(list), <<>>)

\* a variant that increments twice
BumpMutTwice(d) == [d EXCEPT !.version = incrementVersion(incrementVersion(d.version)), !.updated = Today]

\* data.version = incrementVersion(data.version); data.updated = formatDate()
Bump(d) == [d EXCEPT !.version = incrementVersion(d.version), !.updated = Today]

ReviewProceed(typed) ==
  /\ pc = "reviewProceed"
  /\ LET answer == question(typed)
     IN IF ~IsYes(answer)
        THEN Exit("declined", 0) /\ UNCHANGED <<data, stage5Vars>>
        ELSE ToStage5(Bump(data))
  /\ UNCHANGED <<mode, changes, answers, fsVars, histVars>>

(***************************************************************************)
(* runWizard: six questions on the record it was given.                    *)
(***************************************************************************)
WizardStep(at, next, field, answer, d) ==
  /\ pc = at
  /\ data' = d
  /\ answers' = [answers EXCEPT ![field] = answer]
  /\ pc' = next
  /\ UNCHANGED <<exitCode, ending, mode, changes, stage5Vars, fsVars, histVars>>

WizardTechStack(stack) ==
  WizardStep("wizard1", "wizard2", "techStack", askTechStack(stack), [data EXCEPT !.techStack = askTechStack(stack)])

\* if (answer.toLowerCase() !== 'skip') data.<pattern> = answer
PatternAnswer(d, field, answer) ==
  IF ~IsSkip(answer) THEN [d EXCEPT ![field] = Pat(answer)] ELSE d

WizardApi(typed) ==
  WizardStep("wizard2", "wizard3", "apiPattern", question(typed), PatternAnswer(data, "apiPattern", question(typed)))

WizardComponent(typed) ==
  WizardStep("wizard3", "wizard4", "componentPattern", question(typed), PatternAnswer(data, "componentPattern", question(typed)))

WizardNaming(naming) ==
  WizardStep("wizard4", "wizard5", "naming", askNamingConventions(naming), [data EXCEPT !.naming = askNamingConventions(naming)])

WizardStandards(list) ==
  WizardStep("wizard5", "wizard6", "standards", listInput(list), [data EXCEPT !.standards = listInput(list)])

WizardSecurity(list) ==
  /\ pc = "wizard6"
  /\ ToStage5([data EXCEPT !.security = listInput(list)])
  /\ answers' = [answers EXCEPT !.security = listInput(list)]
  /\ UNCHANGED <<mode, changes, fsVars, histVars>>

(***************************************************************************)
(* The flag workflows.                                                     *)
(***************************************************************************)
\* updateTechStackOnly: the four answers, a fresh record, the merge with the
\* parsed document when there is one
TechStackMerge(fs, techStack) ==
  LET newData == [NewRecord(Today) EXCEPT !.techStack = techStack]
      existingData == parseTechnicalDomain(fs.td.content, Today)
  IN IF fs.td.exists
     THEN [newData EXCEPT !.apiPattern = existingData.apiPattern,
                          !.componentPattern = existingData.componentPattern,
                          !.naming = existingData.naming,
                          !.standards = existingData.standards,
                          !.security = existingData.security,
                          !.version = incrementVersion(existingData.version)]
     ELSE newData

UpdateTechStackOnly(stack) ==
  /\ pc = "techStackOnly"
  /\ ToStage5(TechStackMerge(files, askTechStack(stack)))
  /\ UNCHANGED <<mode, changes, answers, fsVars, histVars>>

\* if (answer.toLowerCase() !== 'skip') existingData.<pattern> = answer || null
PatternsAnswer(d, field, answer) ==
  IF ~IsSkip(answer) THEN [d EXCEPT ![field] = OrNull(answer)] ELSE d

PatternsApi(typed) ==
  /\ pc = "patternsApi"
  /\ data' = PatternsAnswer(data, "apiPattern", question(typed))
  /\ answers' = [answers EXCEPT !.apiPattern = question(typed)]
  /\ pc' = "patternsComponent"
  /\ UNCHANGED <<exitCode, ending, mode, changes, stage5Vars, fsVars, histVars>>

PatternsComponent(typed) ==
  /\ pc = "patternsComponent"
  /\ ToStage5(Bump(PatternsAnswer(data, "componentPattern", question(typed))))
  /\ answers' = [answers EXCEPT !.componentPattern = question(typed)]
  /\ UNCHANGED <<mode, changes, fsVars, histVars>>

(***************************************************************************)
(* stage5Confirmation.                                                     *)
(***************************************************************************)
\* 'Looks good? [y/n]', then the validation
LooksGood(typed) ==
  /\ pc = "looksGood"
  /\ LET answer == question(typed)
         v == validateTechnicalDomain(content)
     IN /\ looksGood' = answer
        /\ IF ~IsYes(answer)
           THEN Exit("declined", 0) /\ UNCHANGED <<validation, reported>>
           ELSE /\ validation' = v
                /\ IF v.valid
                   THEN pc' = "proceed" /\ UNCHANGED <<exitCode, ending, reported>>
                   ELSE reported' = v.errors /\ Exit("validationFailed", 1)
  /\ UNCHANGED <<mode, data, changes, answers, content, proceed, fsVars, histVars>>

\* the two writeFileSync; io: both succeed, the first throws, the second throws
WriteFiles(fs, io) ==
  [td |-> IF io = "tdFails" THEN fs.td ELSE FileOf(content),
   nav |-> IF io = "ok" THEN FileOf(generateNavigation) ELSE fs.nav]

\* 'Proceed? [y/n]', then the writes and process.exit(0); a write that throws
\* is caught by main, which leaves with process.exit(1)
Proceed(typed, io) ==
  /\ pc = "proceed"
  /\ LET answer == question(typed)
     IN /\ proceed' = answer
        /\ IF ~IsYes(answer)
           THEN Exit("declined", 0) /\ UNCHANGED <<files, written>>
           ELSE /\ files' = WriteFiles(files, io)
                /\ written' = [td |-> written.td \/ io # "tdFails", nav |-> written.nav \/ io = "ok"]
                /\ IF io = "ok" THEN Exit("done", 0) ELSE Exit("error", 1)
  /\ UNCHANGED <<mode, data, changes, answers, content, looksGood, validation, reported, backup,
                 contextDir, histVars>>

Next ==
  \/ \E found \in BOOLEAN : Main(found)
  \/ \E typed \in ExternalTyped : CheckExternalContext(typed)
  \/ \E typed \in YesNoTyped : Ready(typed)
  \/ \E typed \in MenuTyped : Menu(typed)
  \/ \E typed \in YesNoTyped : ReplaceProceed(typed)
  \/ \E typed \in ChoiceTyped, stack \in StackTyped : ReviewTechStack(typed, stack)
  \/ \E typed \in ChoiceTyped, blob \in ApiBlobTyped : ReviewApi(typed, blob)
  \/ \E typed \in ChoiceTyped, blob \in ComponentBlobTyped : ReviewComponent(typed, blob)
  \/ \E typed \in ChoiceTyped, naming \in NamingTyped : ReviewNaming(typed, naming)
  \/ \E typed \in ChoiceTyped, list \in StandardsTyped : ReviewStandards(typed, list)
  \/ \E typed \in ChoiceTyped, list \in SecurityTyped : ReviewSecurity(typed, list)
  \/ \E typed \in YesNoTyped : ReviewProceed(typed)
  \/ \E stack \in StackTyped : WizardTechStack(stack)
  \/ \E typed \in ApiTyped : WizardApi(typed)
  \/ \E typed \in ComponentTyped : WizardComponent(typed)
  \/ \E naming \in NamingTyped : WizardNaming(naming)
  \/ \E list \in StandardsTyped : WizardStandards(list)
  \/ \E list \in SecurityTyped : WizardSecurity(list)
  \/ \E stack \in StackTyped : UpdateTechStackOnly(stack)
  \/ \E typed \in ApiTyped : PatternsApi(typed)
  \/ \E typed \in ComponentTyped : PatternsComponent(typed)
  \/ \E typed \in YesNoTyped : LooksGood(typed)
  \/ \E typed \in YesNoTyped, io \in {"ok", "tdFails", "navFails"} : Proceed(typed, io)

Spec == Init /\ [][Next]_vars

(***************************************************************************)
(* incrementVersion on its own: every string of at most MaxVersionLen      *)
(* symbols of VersionAlphabet, and a few longer ones, as its argument.     *)
(***************************************************************************)
MaxVersionLen == 3

VersionAlphabet == {"0", "1", "2", "4", "9", ".", "b", "a", "d", " ", "-"}

LongerVersions ==
  { <<"1", ".", "2", ".", "3">>, <<"1", "2", ".", "9", "9">>, <<"v", "1", ".", "4">>,
    <<"1", ".", "4", "-", "r", "c">>, <<"1", "0", ".", "0", "9">> }

VersionStrings ==
  UNION {[1..n -> VersionAlphabet] : n \in 0..MaxVersionLen} \cup LongerVersions

InitVersion ==
  /\ versionArg \in VersionStrings
  /\ versionResult = Unasked
  /\ NoDatabase
  /\ flag = "none"
  /\ seed = Null
  /\ files = [td |-> Absent, nav |-> Absent]
  /\ before = [td |-> Absent, nav |-> Absent]
  /\ pc = "incrementVersion"
  /\ exitCode = 0
  /\ ending = ""
  /\ contextDir = TRUE
  /\ dirBefore = TRUE
  /\ mode = ""
  /\ backup = [td |-> Absent, nav |-> Absent, made |-> FALSE]
  /\ data = Null
  /\ changes = <<>>
  /\ answers = NoAnswers
  /\ content = <<>>
  /\ looksGood = Unasked
  /\ proceed = Unasked
  /\ validation = Null
  /\ reported = <<>>
  /\ written = [td |-> FALSE, nav |-> FALSE]

IncrementVersion ==
  /\ pc = "incrementVersion"
  /\ versionResult = Unasked
  /\ versionResult' = incrementVersion(versionArg)
  /\ UNCHANGED <<flag, pc, exitCode, ending, contextDir, dirBefore, mode, files, backup,
                 before, seed, data, changes, answers, content, looksGood, proceed, validation, reported, written, versionArg, dbVars>>

NextVersion == IncrementVersion

SpecVersion == InitVersion /\ [][NextVersion]_vars

(***************************************************************************)
(* Readings of a written document and of a version string, used by the     *)
(* properties below.                                                       *)
(***************************************************************************)
\* the version and the date of the frontmatter line, the first line of a
\* generated document
Stamp(file) == FrontmatterCaptures(file.content[1])

\* the date on the '**Last Updated**: ' line, the sixth line
DateLine(file) == SubSeq(file.content[6], 3, Len(file.content[6]))

\* the lines from the heading '## title' up to the rule that closes it
Section(file, title) ==
  LET from == SetMin({n \in 1..Len(file.content) : file.content[n] = H2(title)})
      to == SetMin({n \in (from + 1)..Len(file.content) : file.content[n] = Rule})
  IN SubSeq(file.content, from, to - 1)

FieldSections ==
  {"Primary Stack", "Code Patterns", "Naming Conventions", "Code Standards",
   "Security Requirements"}

\* the i-th dot-separated component of v, <<>> when there is none
DotsOf(v) == {k \in 1..Len(v) : v[k] = "."}

ComponentOf(v, i) ==
  LET ends == DotsOf(v) \cup {Len(v) + 1}
      e1 == SetMin(ends)
      e2 == IF e1 > Len(v) THEN e1 ELSE SetMin({k \in ends : k > e1})
  IN IF i = 1 THEN SubSeq(v, 1, e1 - 1) ELSE SubSeq(v, e1 + 1, e2 - 1)

\* the integer c starts with (white space, a sign, digits), 0 when it starts
\* with none
IntegerOf(c) ==
  LET runs == {ab \in (1..Len(c)) \X (1..Len(c)) :
                 /\ ab[1] <= ab[2]
                 /\ \A q \in ab[1]..ab[2] : c[q] \in Digits
                 /\ ab[2] = Len(c) \/ c[ab[2] + 1] \notin Digits
                 /\ \A q \in 1..(ab[1] - 1) :
                      IsWS(c[q]) \/ (q = ab[1] - 1 /\ c[q] \in {"-", "+"})}
  IN IF runs = {} THEN 0
     ELSE LET ab == CHOOSE r \in runs : TRUE
              n == DigitsVal(SubSeq(c, ab[1], ab[2]), 0)
          IN IF ab[1] > 1 /\ c[ab[1] - 1] = "-" THEN 0 - n ELSE n

MajorOf(v) == IntegerOf(ComponentOf(v, 1))
MinorOf(v) == IntegerOf(ComponentOf(v, 2))

\* v reads <digits>.<digits>
IsMajorMinor(v) ==
  /\ Cardinality(DotsOf(v)) = 1
  /\ \A k \in 1..Len(v) : v[k] \in Digits \cup {"."}
  /\ ComponentOf(v, 1) # <<>>
  /\ ComponentOf(v, 2) # <<>>

\* new is old one minor step on, major kept
OneMinorStep(old, new) ==
  new = NumStr(MajorOf(old)) \o <<".">> \o NumStr(MinorOf(old) + 1)

Answered(answer) == toLowerCase(answer) = <<"y">>

ChangesMade == Len(SelectSeq(changes, LAMBDA c : c # "Kept"))

(***************************************************************************)
(* Properties.                                                             *)
(***************************************************************************)
\* C1: a target file is written, or differs from what the session found,
\* only when validateTechnicalDomain returned valid for the rendered text,
\* the text written is that text, and both 'Looks good?' and the final
\* 'Proceed?' were answered y; in every other state neither file is written.
C1_WriteOnlyWhenValidAndConfirmed ==
  (written.td \/ written.nav \/ files # before) =>
    /\ validation # Null
    /\ validation.valid
    /\ written.td
    /\ files.td.content = content
    /\ Len(Errors(files.td.content)) = 0
    /\ Answered(looksGood)
    /\ Answered(proceed)

C1_Witness ==
  /\ pc = "exited"
  /\ mode = "addNew"
  /\ written.td
  /\ written.nav
  /\ files # before

\* C2: when validation finds a violated rule the session ends with exit
\* code 1, every violated rule is among those reported, and both target
\* files are as the session found them.
C2_ValidationFailureAborts ==
  (pc = "exited" /\ validation # Null /\ ~validation.valid) =>
    /\ exitCode = 1
    /\ files = before
    /\ ~written.td
    /\ ~written.nav
    /\ Len(content) > MviLineLimit => \E i \in 1..Len(reported) : reported[i] = "lines"
    /\ (\A n \in 1..Len(content) : ~FrontmatterLine(content[n]))
         => \E i \in 1..Len(reported) : reported[i] = "frontmatter"
    /\ (\A n \in 1..Len(content) : ~includes(content[n], <<"**Purpose**:">>))
         => \E i \in 1..Len(reported) : reported[i] = "purpose"
    /\ (\A n \in 1..Len(content) : ~includes(content[n], <<"**Last Updated**:">>))
         => \E i \in 1..Len(reported) : reported[i] = "lastUpdated"
    /\ (\A n \in 1..Len(content) : ~includes(content[n], <<"(folder) Codebase References">>))
         => \E i \in 1..Len(reported) : reported[i] = "codebaseRefs"
    /\ (\A n \in 1..Len(content) : ~includes(content[n], <<"Priority:", " ", "critical">>))
         => \E i \in 1..Len(reported) : reported[i] = "priority"
    /\ (\A n \in 1..Len(content) : ~VersionPattern(content[n]))
         => \E i \in 1..Len(reported) : reported[i] = "version"

C2_Witness ==
  /\ pc = "exited"
  /\ exitCode = 1
  /\ validation # Null
  /\ ~validation.valid
  /\ Len(reported) >= 2
  /\ before.td.exists

\* C3: round trip.  For a valid record R (version major.minor, techStack and
\* naming null or four non-empty values, single-line patterns, lists of
\* non-empty trimmed items) parseTechnicalDomain(generateTechnicalDomain(R))
\* has R's version, date, tech stack, patterns, naming and both lists.  The
\* record at the menu is the parse of the document rendered from seed.
C3_RoundTrip ==
  LET FourFilled(g) == g = Null \/ \A f \in DOMAIN g : g[f] # <<>>
      OneLine(q) == q = Null \/ (q.text # <<>> /\ ~includes(q.text, <<"\n">>) /\ trim(q.text) = q.text)
      Items(l) == \A i \in 1..Len(l) : l[i] # <<>> /\ trim(l[i]) = l[i]
      Valid(r) == /\ IsMajorMinor(r.version)
                  /\ FourFilled(r.techStack)
                  /\ FourFilled(r.naming)
                  /\ OneLine(r.apiPattern)
                  /\ OneLine(r.componentPattern)
                  /\ Items(r.standards)
                  /\ Items(r.security)
  IN (pc = "menu" /\ seed # Null /\ Valid(seed)) =>
       /\ data.version = seed.version
       /\ data.updated = seed.updated
       /\ seed.techStack # Null => data.techStack = seed.techStack
       /\ seed.apiPattern # Null => data.apiPattern = seed.apiPattern
       /\ seed.componentPattern # Null => data.componentPattern = seed.componentPattern
       /\ seed.naming # Null => data.naming = seed.naming
       /\ data.standards = seed.standards
       /\ data.security = seed.security

\* C4: a confirmed --tech-stack update of an existing generated document
\* writes a document whose code patterns, naming conventions, standards and
\* security sections are those of the existing document and whose version is
\* the existing one with minor + 1.
C4_TechStackOnlyFrame ==
  (mode = "techStack" /\ written.td /\ before.td.exists) =>
    /\ \A t \in FieldSections \ {"Primary Stack"} :
         Section(files.td, t) = Section(before.td, t)
    /\ OneMinorStep(Stamp(before.td).version, Stamp(files.td).version)

\* C5: a confirmed Review & Update in which all six sub-prompts were answered
\* Keep writes a document whose six field groups are those of the existing
\* document; the version is minor + 1 and the date is the session's.
C5_KeepAllFrame ==
  (mode = "review" /\ written.td /\ Len(changes) = 6 /\ ChangesMade = 0) =>
    /\ \A t \in FieldSections : Section(files.td, t) = Section(before.td, t)
    /\ OneMinorStep(Stamp(before.td).version, Stamp(files.td).version)
    /\ Stamp(files.td).updated = Today

\* C6: in Review & Update, tech-stack-only and patterns-only the written
\* version is major.(minor + 1) of the version parsed from the existing
\* document, whatever the number of fields changed.
C6_VersionBumpedOnce ==
  (mode \in {"review", "techStack", "patterns"} /\ written.td /\ before.td.exists) =>
    OneMinorStep(Stamp(before.td).version, Stamp(files.td).version)

C6_Witness ==
  /\ mode = "review"
  /\ written.td
  /\ ChangesMade = 2
  /\ Stamp(before.td).version = <<"2", ".", "9">>
  /\ Stamp(files.td).version = <<"2", ".", "1", "0">>

\* C7: every persisted update of an existing document that changes its
\* content (Review & Update, Add new, tech-stack-only, patterns-only) writes
\* a version of the form <major>.<minor> whose minor is the previous minor
\* + 1 and whose major is not lower than the previous major.
C7_UpdateBumpsMinor ==
  ( /\ mode \in {"review", "addNew", "techStack", "patterns"}
    /\ written.td
    /\ before.td.exists
    /\ files.td.content # before.td.content ) =>
    /\ IsMajorMinor(Stamp(files.td).version)
    /\ MinorOf(Stamp(files.td).version) = MinorOf(Stamp(before.td).version) + 1
    /\ MajorOf(Stamp(files.td).version) >= MajorOf(Stamp(before.td).version)

\* C8: every written document carries the session's date in the frontmatter
\* 'Updated' field and on the 'Last Updated' line, in every mode.
C8_WrittenDateIsToday ==
  written.td =>
    /\ Stamp(files.td).updated = Today
    /\ DateLine(files.td) = Today

\* C9: once Replace all has made its backup, the backup holds the document
\* (and navigation.md when there was one) exactly as the session found them;
\* a completed Replace all has made it, and has written a document of
\* version 1.0 rendered from a record whose fields are the wizard's answers
\* on an empty record.
C9_ReplaceAllBackupAndFresh ==
  /\ backup.made =>
       /\ mode = "replaceAll"
       /\ before.td.exists
       /\ backup.td = before.td
       /\ backup.nav = before.nav
  /\ (mode = "replaceAll" /\ written.td) =>
       /\ backup.made
       /\ Stamp(files.td).version = <<"1", ".", "0">>
       /\ \E stack \in StackTyped, api \in ApiTyped, component \in ComponentTyped,
             naming \in NamingTyped :
            /\ data.techStack = askTechStack(stack)
            /\ data.apiPattern = (IF toLowerCase(trim(api)) = <<"skip">> THEN Null ELSE Pat(trim(api)))
            /\ data.componentPattern =
                 (IF toLowerCase(trim(component)) = <<"skip">> THEN Null ELSE Pat(trim(component)))
            /\ data.naming = askNamingConventions(naming)
       /\ \E standards \in StandardsTyped, security \in SecurityTyped :
            /\ data.standards = listInput(standards)
            /\ data.security = listInput(security)
       /\ files.td.content =
            generateTechnicalDomain([data EXCEPT !.version = <<"1", ".", "0">>, !.updated = Today])

C9_Witness ==
  /\ mode = "replaceAll"
  /\ pc = "exited"
  /\ exitCode = 0
  /\ written.td
  /\ written.nav
  /\ backup.made
  /\ backup.nav.exists
  /\ Stamp(backup.td).version = <<"1", ".", "3">>
  /\ files.td # backup.td

\* C10: incrementVersion(v) is major.(minor + 1), major and minor the integer
\* parses of the first two dot-separated components of v, 0 when unparseable
\* or missing; "1.4" gives "1.5", "bad" gives "0.1", "2.9" gives "2.10"; the
\* result's major is the parsed major.
C10_IncrementVersion ==
  versionResult # Unasked =>
    /\ versionResult = NumStr(MajorOf(versionArg)) \o <<".">> \o NumStr(MinorOf(versionArg) + 1)
    /\ versionArg = <<"1", ".", "4">> => versionResult = <<"1", ".", "5">>
    /\ versionArg = <<"b", "a", "d">> => versionResult = <<"0", ".", "1">>
    /\ versionArg = <<"2", ".", "9">> => versionResult = <<"2", ".", "1", "0">>
    /\ MajorOf(versionResult) = MajorOf(versionArg)

C10_Witness ==
  /\ versionArg = <<"2", ".", "9">>
  /\ versionResult = <<"2", ".", "1", "0">>

\* the exits a negative or cancelling answer takes: the external-context
\* defer, n at 'Ready?', 'Proceed?' or 'Looks good?', menu option 4
CancelEndings == {"defer", "declined", "cancel"}

\* C11: a session ended by a negative or cancelling answer has exit code 0
\* and leaves the filesystem as it was before the program started (the two
\* target files and the context directory), apart from the backup made by a
\* confirmed Replace all.
C11_CancelTouchesNothing ==
  (pc = "exited" /\ ending \in CancelEndings) =>
    /\ exitCode = 0
    /\ files = before
    /\ contextDir = dirBefore
    /\ backup.made => mode = "replaceAll"

(***************************************************************************)
(* validateTechnicalDomain on its own.  The texts are generated documents  *)
(* of MviLineLimit - 1 to MviLineLimit + LinesOver lines, edited by hand:  *)
(* each of the six markers the rules look for is there or is not.          *)
(***************************************************************************)
LinesOver == 1

DocLengths == (MviLineLimit - 1)..(MviLineLimit + LinesOver)

ValidatorCases ==
  [version : BOOLEAN, frontmatter : BOOLEAN, purpose : BOOLEAN, lastUpdated : BOOLEAN,
   codebaseRefs : BOOLEAN, priority : BOOLEAN, lines : DocLengths]

\* the frontmatter line of a case: without ' -->' the comment pattern does
\* not match; 'high' for 'critical' and 'bad' for the version leave it matching
CaseFrontmatter(c) ==
  FM_Context \o <<"project-intelligence/technical">> \o FM_Priority
    \o (IF c.priority THEN <<"critical">> ELSE <<"high">>)
    \o FM_Version \o (IF c.version THEN <<"1", ".", "3">> ELSE <<"b", "a", "d">>)
    \o FM_Updated \o EarlierDay
    \o (IF c.frontmatter THEN FM_End ELSE <<>>)

CaseText(c) ==
  LET short == Len(generateTechnicalDomain(SeedFull))
      base == generateTechnicalDomain(
                [SeedFull EXCEPT !.standards = [i \in 1..(c.lines - short + 1) |-> <<"rule">>]])
  IN [n \in 1..Len(base) |->
        IF n = 1 THEN CaseFrontmatter(c)
        ELSE IF ~c.purpose /\ includes(base[n], <<"**Purpose**:">>) THEN <<>>
        ELSE IF ~c.lastUpdated /\ includes(base[n], <<"**Last Updated**:">>) THEN <<>>
        ELSE IF ~c.codebaseRefs /\ includes(base[n], <<"(folder) Codebase References">>) THEN <<>>
        ELSE base[n]]

InitValidate ==
  /\ \E c \in ValidatorCases : content = CaseText(c)
  /\ validation = Null
  /\ pc = "validate"
  /\ flag = "none"
  /\ seed = Null
  /\ files = [td |-> Absent, nav |-> Absent]
  /\ before = [td |-> Absent, nav |-> Absent]
  /\ contextDir = TRUE
  /\ dirBefore = TRUE
  /\ exitCode = 0
  /\ ending = ""
  /\ mode = ""
  /\ backup = [td |-> Absent, nav |-> Absent, made |-> FALSE]
  /\ data = Null
  /\ changes = <<>>
  /\ answers = NoAnswers
  /\ looksGood = Unasked
  /\ proceed = Unasked
  /\ reported = <<>>
  /\ written = [td |-> FALSE, nav |-> FALSE]
  /\ versionArg = <<>>
  /\ versionResult = Unasked
  /\ NoDatabase

Validate ==
  /\ pc = "validate"
  /\ validation' = validateTechnicalDomain(content)
  /\ pc' = "validated"
  /\ UNCHANGED <<flag, exitCode, ending, contextDir, dirBefore, mode, files, backup,
                 before, seed, data, changes, answers, content, looksGood, proceed, reported,
                 written, versionArg, versionResult, dbVars>>

NextValidate == Validate

SpecValidate == InitValidate /\ [][NextValidate]_vars

ParserCases ==
  [naming : {"generated", "noRows", "absent"},
   stack : {"generated", "noRows", "headerOnly", "absent"},
   patterns : {"generated", "unterminated", "absent"},
   frontmatter : BOOLEAN,
   lists : {"generated", "absent"}]

ParserBase == generateTechnicalDomain(SeedFull)

LineAt(line) == SetMin({n \in 1..Len(ParserBase) : ParserBase[n] = line})

\* the lines of ParserBase a case leaves out.  A table is heading, header
\* row, separator row and four rows; a pattern is heading, opening fence,
\* text, closing fence and a blank line; each list is heading and one bullet.
EditedOut(c) ==
  LET stackAt == LineAt(H2("Primary Stack"))
      namingAt == LineAt(H2("Naming Conventions"))
      apiAt == LineAt(H3("API Endpoint"))
      componentAt == LineAt(H3("Component"))
      standardsAt == LineAt(H2("Code Standards"))
      securityAt == LineAt(H2("Security Requirements"))
  IN (IF c.frontmatter THEN {} ELSE {1})
     \cup (CASE c.stack = "generated" -> {}
             [] c.stack = "noRows" -> (stackAt + 3)..(stackAt + 6)
             [] c.stack = "headerOnly" -> (stackAt + 2)..(stackAt + 6)
             [] c.stack = "absent" -> stackAt..(stackAt + 6))
     \cup (CASE c.patterns = "generated" -> {}
             [] c.patterns = "unterminated" -> {apiAt + 3} \cup (componentAt..(componentAt + 4))
             [] c.patterns = "absent" -> (apiAt..(apiAt + 4)) \cup (componentAt..(componentAt + 4)))
     \cup (CASE c.naming = "generated" -> {}
             [] c.naming = "noRows" -> (namingAt + 3)..(namingAt + 6)
             [] c.naming = "absent" -> namingAt..(namingAt + 6))
     \cup (CASE c.lists = "generated" -> {}
             [] c.lists = "absent" -> {standardsAt, standardsAt + 1, securityAt, securityAt + 1})

ParserText(c) ==
  LET out == EditedOut(c)
      keep == [n \in 1..Len(ParserBase) |-> n \notin out]
      kept == SelectSeq([n \in 1..Len(ParserBase) |-> n], LAMBDA n : keep[n])
  IN [i \in 1..Len(kept) |-> ParserBase[kept[i]]]

InitParse ==
  /\ \E c \in ParserCases : content = ParserText(c)
  /\ data = Null
  /\ pc = "parse"
  /\ flag = "none"
  /\ seed = Null
  /\ files = [td |-> Absent, nav |-> Absent]
  /\ before = [td |-> Absent, nav |-> Absent]
  /\ contextDir = TRUE
  /\ dirBefore = TRUE
  /\ exitCode = 0
  /\ ending = ""
  /\ mode = ""
  /\ backup = [td |-> Absent, nav |-> Absent, made |-> FALSE]
  /\ changes = <<>>
  /\ answers = NoAnswers
  /\ looksGood = Unasked
  /\ proceed = Unasked
  /\ validation = Null
  /\ reported = <<>>
  /\ written = [td |-> FALSE, nav |-> FALSE]
  /\ versionArg = <<>>
  /\ versionResult = Unasked
  /\ NoDatabase

Parse ==
  /\ pc = "parse"
  /\ data' = parseTechnicalDomain(content, Today)
  /\ pc' = "parsed"
  /\ UNCHANGED <<flag, exitCode, ending, contextDir, dirBefore, mode, files, backup,
                 before, seed, changes, answers, content, looksGood, proceed, validation, reported,
                 written, versionArg, versionResult, dbVars>>

NextParse == Parse

SpecParse == InitParse /\ [][NextParse]_vars

\* C14: parseTechnicalDomain returns a record for every text.  A text with no
\* row of a table (the section missing, or left with its heading, header row
\* or separator only) yields null for that table; one with no closed fenced
\* block yields null for both patterns; one with no bullet under the two list
\* headings yields empty lists; one without the frontmatter line yields
\* version "1.0" and today's date.
C14_ParseTolerant ==
  pc = "parsed" =>
    LET Has(line) == \E n \in 1..Len(content) : content[n] = line
        Fences == {n \in 1..Len(content) : startsWith(content[n], Fence)}
    IN /\ DOMAIN data = {"version", "updated", "techStack", "apiPattern", "componentPattern",
                         "naming", "standards", "security"}
       /\ ~Has(StackRow("Framework", SeedFull.techStack.framework)) => data.techStack = Null
       /\ ~Has(NamingRow("Files", SeedFull.naming.files)) => data.naming = Null
       /\ Cardinality(Fences) < 2 => data.apiPattern = Null /\ data.componentPattern = Null
       /\ ~Has(H2("Code Standards")) => data.standards = <<>>
       /\ ~Has(H2("Security Requirements")) => data.security = <<>>
       /\ ~Has(ParserBase[1]) => data.version = <<"1", ".", "0">> /\ data.updated = Today

\* the lines of the subsection '### title' of a document, from its heading to
\* the fence that closes its block; <<>> when the document has none
Subsection(file, title) ==
  LET heads == {n \in 1..Len(file.content) : file.content[n] = H3(title)}
      from == SetMin(heads)
      to == SetMin({n \in (from + 1)..Len(file.content) : file.content[n] = Fence})
  IN IF heads = {} THEN <<>> ELSE SubSeq(file.content, from, to)

\* C15: --patterns without a document ends with exit code 1 and nothing
\* written.  With one, a written document keeps the subsection of every
\* pattern whose prompt was answered "skip" in any letter case, keeps the
\* tech stack, naming, standards and security sections of the existing
\* document, and carries the existing version one minor step on.
C15_PatternsOnly ==
  /\ (flag = "patterns" /\ ~before.td.exists /\ pc # "main") =>
       /\ pc = "exited"
       /\ exitCode = 1
       /\ files = before
       /\ ~written.td /\ ~written.nav
       /\ ~backup.made
  /\ (mode = "patterns" /\ written.td) =>
       /\ IsSkip(answers.apiPattern) =>
            Subsection(files.td, "API Endpoint") = Subsection(before.td, "API Endpoint")
       /\ IsSkip(answers.componentPattern) =>
            Subsection(files.td, "Component") = Subsection(before.td, "Component")
       /\ \A t \in FieldSections \ {"Code Patterns"} :
            Section(files.td, t) = Section(before.td, t)
       /\ OneMinorStep(Stamp(before.td).version, Stamp(files.td).version)

\* C16: the exit code is 0 when the session succeeds or the user cancels, 1
\* when validation fails, when an uncaught error occurs, and when a choice
\* outside the offered ones is entered at the external-context options, at
\* the existing-document menu or at a sub-prompt of Review & Update; no other
\* code occurs.
C16_ExitCodes ==
  /\ pc = "exited" => exitCode \in {0, 1}
  /\ ending \in {"done"} \cup CancelEndings => exitCode = 0
  /\ ending \in {"validationFailed", "invalidChoice", "error"} => exitCode = 1
  /\ answers.choice \notin {Unasked, <<"1">>, <<"2">>, <<"3">>} =>
       pc = "exited" /\ exitCode = 1

\* the lines of section that are list bullets
BulletsOf(section) == SelectSeq(section, LAMBDA line : startsWith(line, <<"-", " ">>))

\* C17: a first-time session (no document found) whose 'Ready?' was answered
\* y asks the wizard's questions; it ends only declined, failed or done, and
\* when it is done with four tech-stack answers, both patterns skipped, four
\* naming answers and non-empty standards and security lists, the document
\* written has Version 1.0, the four stack rows and the four naming rows of
\* the answers, no API Endpoint and no Component subsection and one bullet
\* per list item, it passed validation, and technical-domain.md and
\* navigation.md are the files written.
C17_FirstTimeCreation ==
  /\ (mode = "firstTime" /\ pc = "exited") =>
       ending \in {"declined", "validationFailed", "error", "done"}
  /\ ( /\ mode = "firstTime"
       /\ ending = "done"
       /\ IsYes(proceed)
       /\ IsSkip(answers.apiPattern)
       /\ IsSkip(answers.componentPattern)
       /\ answers.standards # <<>>
       /\ answers.security # <<>> ) =>
       /\ Stamp(files.td).version = <<"1", ".", "0">>
       /\ SubSeq(Section(files.td, "Primary Stack"), 4, 7)
            = << StackRow("Framework", answers.techStack.framework),
                 StackRow("Language", answers.techStack.language),
                 StackRow("Database", answers.techStack.database),
                 StackRow("Styling", answers.techStack.styling) >>
       /\ Subsection(files.td, "API Endpoint") = <<>>
       /\ Subsection(files.td, "Component") = <<>>
       /\ SubSeq(Section(files.td, "Naming Conventions"), 4, 7)
            = << NamingRow("Files", answers.naming.files),
                 NamingRow("Components", answers.naming.components),
                 NamingRow("Functions", answers.naming.functions),
                 NamingRow("Database", answers.naming.database) >>
       /\ BulletsOf(Section(files.td, "Code Standards")) = Bullets(answers.standards)
       /\ BulletsOf(Section(files.td, "Security Requirements")) = Bullets(answers.security)
       /\ validation.valid
       /\ written.td /\ written.nav
       /\ files.nav = FileOf(generateNavigation)
       /\ ~backup.made

\* the elements of a sequence
Range(seq) == {seq[i] : i \in 1..Len(seq)}

\* the fields of the record in the order runWizard asks for them
WizardFields ==
  <<"techStack", "apiPattern", "componentPattern", "naming", "standards", "security">>

WizardPcs == <<"wizard1", "wizard2", "wizard3", "wizard4", "wizard5", "wizard6">>

\* C18: in Add new the wizard works on the record parsed from the existing
\* document: a field whose question is not yet answered, the version and the
\* date are those of that record.  In the written document a pattern whose
\* question was answered "skip" is the existing one, and every standards and
\* security bullet of the existing document is still there after new ones
\* were entered.
C18_AddNewAdditive ==
  mode = "addNew" =>
    /\ LET existing == parseTechnicalDomain(before.td.content, Today)
       IN /\ \A k \in 1..6 : pc = WizardPcs[k] =>
               \A j \in k..6 : data[WizardFields[j]] = existing[WizardFields[j]]
          /\ data.version = existing.version
          /\ data.updated = existing.updated
    /\ written.td =>
         /\ IsSkip(answers.apiPattern) =>
              Subsection(files.td, "API Endpoint") = Subsection(before.td, "API Endpoint")
         /\ IsSkip(answers.componentPattern) =>
              Subsection(files.td, "Component") = Subsection(before.td, "Component")
         /\ answers.standards # <<>> =>
              Range(BulletsOf(Section(before.td, "Code Standards")))
                \subseteq Range(BulletsOf(Section(files.td, "Code Standards")))
         /\ answers.security # <<>> =>
              Range(BulletsOf(Section(before.td, "Security Requirements")))
                \subseteq Range(BulletsOf(Section(files.td, "Security Requirements")))

\* C19: a session started with --update goes through the prompts of a
\* session without flag (the external-context options, then the existing-
\* document menu and what follows it, never the two flag workflows) and never
\* takes the first-time creation path.
C19_UpdateFlag ==
  flag = "update" =>
    /\ mode \notin {"techStack", "patterns"}
    /\ pc \notin {"techStackOnly", "patternsApi", "patternsComponent"}
    /\ mode # "firstTime"
    /\ pc # "ready"

(***************************************************************************)
(* multilineInput and listInput on their own: every sequence of at most    *)
(* MaxTyped lines of TypedLines arrives on stdin, followed by the          *)
(* sentinel; content holds the lines, data what the function resolves to.  *)
(***************************************************************************)
MaxTyped == 3

TypedLines == {<<>>, <<" ">>, <<"a">>, <<" ", " ", "b", " ">>, <<"---END---">>}

TypedInputs ==
  UNION {[1..n -> TypedLines] : n \in 0..MaxTyped}

InitInput ==
  /\ \E typed \in TypedInputs : content = typed \o <<<<"---END---">>>>
  /\ data = Null
  /\ pc = "input"
  /\ flag = "none"
  /\ seed = Null
  /\ files = [td |-> Absent, nav |-> Absent]
  /\ before = [td |-> Absent, nav |-> Absent]
  /\ contextDir = TRUE
  /\ dirBefore = TRUE
  /\ exitCode = 0
  /\ ending = ""
  /\ mode = ""
  /\ backup = [td |-> Absent, nav |-> Absent, made |-> FALSE]
  /\ changes = <<>>
  /\ answers = NoAnswers
  /\ looksGood = Unasked
  /\ proceed = Unasked
  /\ validation = Null
  /\ reported = <<>>
  /\ written = [td |-> FALSE, nav |-> FALSE]
  /\ versionArg = <<>>
  /\ versionResult = Unasked
  /\ NoDatabase

inputVars ==
  <<flag, exitCode, ending, contextDir, dirBefore, mode, files, backup, before, seed,
    changes, answers, content, looksGood, proceed, validation, reported, written,
    versionArg, versionResult, dbVars>>

MultilineInput ==
  /\ pc = "input"
  /\ data' = multilineInput(content)
  /\ pc' = "blob"
  /\ UNCHANGED inputVars

ListInput ==
  /\ pc = "input"
  /\ data' = listInput(content)
  /\ pc' = "list"
  /\ UNCHANGED inputVars

NextInput == MultilineInput \/ ListInput

SpecInput == InitInput /\ [][NextInput]_vars

\* C20: list mode resolves to the lines typed before the first blank line or
\* the sentinel, each trimmed, in the order typed; blob mode resolves to all
\* the lines typed before the sentinel, blank lines and indentation included,
\* joined by newlines.
C20_InputModes ==
  LET sentinelAt == SetMin({k \in 1..Len(content) : content[k] = <<"---END---">>})
      listEnd == SetMin({k \in 1..Len(content) :
                           trim(content[k]) = <<>> \/ content[k] = <<"---END---">>})
  IN /\ pc = "list" => data = [i \in 1..(listEnd - 1) |-> trim(content[i])]
     /\ pc = "blob" => data = join(SubSeq(content, 1, sentinelAt - 1))

(***************************************************************************)
(* The code-pattern loop of parseTechnicalDomain on its own: texts made of *)
(* at most MaxPieces pieces, each a subsection heading, a fenced block or  *)
(* a line of prose.                                                        *)
(***************************************************************************)
MaxPieces == 3

BlockOf(text) == <<Fence \o <<"typescript">>, text, Fence>>

PatternPieces ==
  { <<H3("API Endpoint")>>,
    <<H3("Component")>>,
    BlockOf(<<"a", "(", ")">>),
    BlockOf(<<" ", "b">>),
    <<<<"prose">>>> }

RECURSIVE FlattenPieces(_)
FlattenPieces(pieces) ==
  IF pieces = <<>> THEN <<>> ELSE Head(pieces) \o FlattenPieces(Tail(pieces))

PatternTexts ==
  {FlattenPieces(pieces) : pieces \in UNION {[1..n -> PatternPieces] : n \in 0..MaxPieces}}

\* the variables the specifications of single functions leave alone
IdleSession ==
  /\ flag = "none"
  /\ seed = Null
  /\ files = [td |-> Absent, nav |-> Absent]
  /\ before = [td |-> Absent, nav |-> Absent]
  /\ contextDir = TRUE
  /\ dirBefore = TRUE
  /\ exitCode = 0
  /\ ending = ""
  /\ mode = ""
  /\ backup = [td |-> Absent, nav |-> Absent, made |-> FALSE]
  /\ changes = <<>>
  /\ answers = NoAnswers
  /\ looksGood = Unasked
  /\ proceed = Unasked
  /\ validation = Null
  /\ reported = <<>>
  /\ written = [td |-> FALSE, nav |-> FALSE]
  /\ versionArg = <<>>
  /\ versionResult = Unasked
  /\ NoDatabase

InitPatterns ==
  /\ content \in PatternTexts
  /\ data = Null
  /\ pc = "parsePatterns"
  /\ IdleSession

ParsePatterns ==
  /\ pc = "parsePatterns"
  /\ data' = parseTechnicalDomain(content, Today)
  /\ pc' = "parsedPatterns"
  /\ UNCHANGED inputVars

NextPatterns == ParsePatterns

SpecPatterns == InitPatterns /\ [][NextPatterns]_vars

\* the fence lines of content, and those that open a block
FenceLines == {n \in 1..Len(content) : startsWith(content[n], Fence)}

Openings == {n \in FenceLines : Cardinality({f \in FenceLines : f < n}) % 2 = 0}

ClosedOpenings == {n \in Openings : \E f \in FenceLines : f > n}

\* the subsection heading a line stands under, 0 when there is none
HeadingOver(n) ==
  LET heads == {h \in 1..(n - 1) :
                  startsWith(content[h], H3("API Endpoint"))
                  \/ startsWith(content[h], H3("Component"))}
  IN IF heads = {} THEN 0 ELSE SetMax(heads)

\* the trimmed text of the block opening at line n
BlockText(n) ==
  LET close == SetMin({f \in FenceLines : f > n})
  IN trim(join(SubSeq(content, n + 1, close - 1)))

\* the pattern the claim names for a heading title: the first block under
\* the last such heading that has a block under it
FirstBlockUnder(title) ==
  LET mine == {n \in ClosedOpenings :
                 HeadingOver(n) # 0 /\ startsWith(content[HeadingOver(n)], H3(title))}
      last == SetMax({HeadingOver(n) : n \in mine})
  IN IF mine = {} THEN Null
     ELSE Pat(BlockText(SetMin({n \in mine : HeadingOver(n) = last})))

\* C21: the pattern parsed for API Endpoint (Component) is the first fenced
\* block under the last API Endpoint (Component) heading that has a block
\* under it: a later block under the same heading does not replace it, a
\* second heading of the same kind with its own block does.
C21_FirstBlockCaptured ==
  pc = "parsedPatterns" =>
    /\ data.apiPattern = FirstBlockUnder("API Endpoint")
    /\ data.componentPattern = FirstBlockUnder("Component")

\* a group of four sub-fields is null or has no blank sub-field
NullOrComplete(group) ==
  group = Null \/ \A f \in DOMAIN group : group[f] # <<>>

\* C22: the record a wizard session (Add new, Replace all) writes has a tech
\* stack that is null or has its four sub-fields filled, and naming
\* conventions that are null or have their four sub-fields filled.
C22_WizardWritesComplete ==
  (mode \in {"addNew", "replaceAll"} /\ written.td) =>
    /\ NullOrComplete(data.techStack)
    /\ NullOrComplete(data.naming)

\* C23: after the standards (security) sub-prompt of Review & Update the
\* list is the existing one when kept, empty when removed, and the existing
\* items followed by the items entered, in entry order and with repeats,
\* when added to, the existing list being the one of the record the document
\* was rendered from; the record parsed at the menu has that record's lists,
\* and parsing a written document returns the lists of the record it was
\* rendered from.
C23_ListsKeepOrder ==
  /\ (mode = "review" /\ Len(changes) >= 5) =>
       LET existing == seed.standards
       IN /\ changes[5] = "Kept" => data.standards = existing
          /\ changes[5] = "Removed" => data.standards = <<>>
          /\ changes[5] = "Updated" =>
               \E list \in StandardsTyped : data.standards = existing \o listInput(list)
  /\ (mode = "review" /\ Len(changes) >= 6) =>
       LET existing == seed.security
       IN /\ changes[6] = "Kept" => data.security = existing
          /\ changes[6] = "Removed" => data.security = <<>>
          /\ changes[6] = "Updated" =>
               \E list \in SecurityTyped : data.security = existing \o listInput(list)
  /\ (pc = "menu" /\ seed # Null) =>
       /\ data.standards = seed.standards
       /\ data.security = seed.security
  /\ written.td =>
       LET again == parseTechnicalDomain(files.td.content, Today)
       IN /\ again.standards = data.standards
          /\ again.security = data.security

C23_Witness ==
  /\ mode = "review"
  /\ written.td
  /\ changes[5] = "Updated"
  /\ changes[6] = "Kept"
  /\ data.standards = <<<<"Use", " ", "strict", " ", "mode">>, <<"no", " ", "any">>, <<"no", " ", "any">>>>
  /\ parseTechnicalDomain(files.td.content, Today).standards = data.standards
  /\ data.security = seed.security

\* C24: a target file is touched only after validation has passed, and a
\* session that has ended has written both target files or neither, also
\* when a write failed.
C24_WrittenAsOneUnit ==
  /\ (written.td \/ written.nav \/ files # before) =>
       validation # Null /\ validation.valid
  /\ pc = "exited" => (written.td <=> written.nav)

\* the stage a prompt belongs to: start, external-context check, detection,
\* mode dispatch (the review, the wizard, the flag workflows), the rendered
\* preview, the validated document, the end
StageOf(at) ==
  CASE at = "main" -> 0
    [] at = "external" -> 1
    [] at \in {"ready", "menu"} -> 2
    [] at \in {"looksGood"} -> 4
    [] at = "proceed" -> 5
    [] at = "exited" -> 6
    [] OTHER -> 3

\* what holds of the stages in every state
StagesInOrder ==
  /\ StageOf(pc) \in {1, 2, 3} => content = <<>> /\ validation = Null
  /\ validation # Null => content = generateTechnicalDomain(data) /\ IsYes(looksGood)
  /\ StageOf(pc) = 5 => validation # Null /\ validation.valid
  /\ (written.td \/ written.nav \/ files # before) =>
       validation # Null /\ validation.valid /\ IsYes(proceed) /\ pc = "exited"
  /\ ending = "defer" =>
       /\ mode = "" /\ data = Null
       /\ files = before /\ ~written.td /\ ~written.nav /\ ~backup.made
  /\ flag \in {"techStack", "patterns"} =>
       /\ StageOf(pc) \notin {1, 2}
       /\ mode \in {"", flag}
       /\ written.td => validation # Null /\ validation.valid /\ files.td.content = content

\* C25: a session moves through external-context check, detection, mode
\* dispatch, render, validation and persisting in that order and never back;
\* a deferred session has shown no detection prompt and written nothing, the
\* context directory included; a --tech-stack or --patterns session never
\* shows the external-context options or a detection prompt and writes only
\* what it rendered and validated.
C25_StagesInOrder ==
  /\ []StagesInOrder
  /\ [][StageOf(pc') >= StageOf(pc) /\ pc' # pc]_vars
  /\ [](ending = "defer" => contextDir = dirBefore)

\* the rules a rendered document can break
RenderedMayFail == {"lines", "version"}

\* C26: the text shown for confirmation is generateTechnicalDomain of the
\* session's record, and whatever the record it satisfies the frontmatter,
\* Purpose, Last Updated, Codebase References and Priority rules; when
\* validation has run on it, its result is that of the validator on this text
\* and its errors are among the line-count and the version-format errors.
C26_RenderedPassesFixedRules ==
  /\ content # <<>> =>
       /\ content = generateTechnicalDomain(data)
       /\ \A rule \in {"frontmatter", "purpose", "lastUpdated", "codebaseRefs", "priority"} :
            SomeLine(content, rule)
  /\ validation # Null =>
       /\ validation = validateTechnicalDomain(content)
       /\ Range(validation.errors) \subseteq RenderedMayFail
       /\ reported \in {<<>>, validation.errors}

C26_Witness ==
  /\ ending = "validationFailed"
  /\ content = generateTechnicalDomain(data)
  /\ reported = <<"version">>

\* C27: the backup is made in one step only, the 'y' to the 'Proceed?' of
\* Replace all that starts the wizard, and is never changed afterwards; a
\* Replace all that ends declined or with a failed validation leaves both
\* target files as the session found them, the version included, and the
\* backup, when made, still holding their copies.
C27_BackupThenUntouched ==
  /\ [][backup' # backup =>
          /\ pc = "replaceProceed" /\ pc' = "wizard1"
          /\ ~backup.made /\ backup' = Backup(files)]_vars
  /\ []((mode = "replaceAll" /\ ending \in {"declined", "validationFailed"}) =>
          /\ files = before
          /\ ~written.td /\ ~written.nav
          /\ Stamp(files.td) = Stamp(before.td)
          /\ backup.made => backup.td = before.td /\ backup.nav = before.nav)
  /\ []((ending = "validationFailed" /\ mode = "replaceAll") => backup.made)

C27_Witness ==
  /\ mode = "replaceAll"
  /\ ending = "validationFailed"
  /\ backup.made
  /\ backup.nav.exists
  /\ files = before

\* the pattern that holds the word skip as its content
SkipStored == Pat(multilineInput(<< <<"skip">>, <<"---END---">> >>))

\* C28: in Review & Update no pattern of the record ever holds the word
\* "skip" as its content (Update with "skip" entered keeps the value the
\* pattern had), and what is written is rendered from such a record.
C28_SkipKeepsPattern ==
  (mode = "review" /\ data # Null) =>
    /\ data.apiPattern # SkipStored
    /\ data.componentPattern # SkipStored

(***************************************************************************)
(* Termination.  Every prompt is eventually answered and every list or     *)
(* blob eventually gets its terminating line: each step of Next is the     *)
(* answer to the pending prompt, so the assumption is weak fairness of     *)
(* Next.  A prompt is pending, and Next enabled, exactly when the process  *)
(* has not exited; WF_vars(Next) is written out with this for ENABLED.     *)
(***************************************************************************)
PromptPending == pc # "exited"

SpecLive == Spec /\ ([]<>(~PromptPending) \/ []<><<Next>>_vars)

\* the prompts in the order main and the functions it calls reach them
PromptOrder ==
  << "main", "external", "ready", "menu", "replaceProceed",
     "review1", "review2", "review3", "review4", "review5", "review6", "reviewProceed",
     "wizard1", "wizard2", "wizard3", "wizard4", "wizard5", "wizard6",
     "techStackOnly", "patternsApi", "patternsComponent",
     "looksGood", "proceed", "exited" >>

PromptRank(at) == CHOOSE n \in 1..Len(PromptOrder) : PromptOrder[n] = at

\* C29: with every prompt answered, every session reaches process.exit with
\* code 0 or 1; each step moves to a prompt later in the order, so no prompt
\* is asked twice and no session returns to an earlier stage.
C29_Terminates ==
  /\ <>(pc = "exited" /\ exitCode \in {0, 1})
  /\ [][PromptRank(pc') > PromptRank(pc)]_vars

C29_Witness ==
  /\ pc = "exited"
  /\ mode = "review"
  /\ Len(changes) = 6
  /\ exitCode = 0
  /\ ending = "done"

(***************************************************************************)
(* The database connection module on its own: any sequence of              *)
(* getConnection, closeConnection and resetConnection, at most MaxCalls    *)
(* calls long.  DATABASE_URL is set or not at each call.                   *)
(***************************************************************************)
MaxCalls == 5

InitDb ==
  /\ pc = "db"
  /\ data = Null
  /\ content = <<>>
  /\ IdleSession

sessionVars ==
  <<flag, pc, exitCode, ending, contextDir, dirBefore, mode, files, backup, before, seed,
    data, changes, answers, content, looksGood, proceed, validation, reported, written,
    versionArg, versionResult>>

\* a variant that closes the held connection and keeps the reference
closeConnectionMutKeepsReference ==
  IF databaseInstance # NoConnection
  THEN /\ connections' = [connections EXCEPT ![databaseInstance] = FALSE]
       /\ databaseInstance' = databaseInstance
  ELSE UNCHANGED <<databaseInstance, connections>>

\* if (databaseInstance) { databaseInstance.close(); databaseInstance = null; }
closeConnection ==
  IF databaseInstance # NoConnection
  THEN /\ connections' = [connections EXCEPT ![databaseInstance] = FALSE]
       /\ databaseInstance' = NoConnection
  ELSE UNCHANGED <<databaseInstance, connections>>

\* getConnection: createConnection() when nothing is held; getDatabasePath
\* throws when DATABASE_URL is not set, before anything is created
GetConnection(urlSet) ==
  /\ pc = "db"
  /\ Len(calls) < MaxCalls
  /\ IF databaseInstance # NoConnection
     THEN /\ calls' = Append(calls, [call |-> "getConnection", returned |-> databaseInstance])
          /\ UNCHANGED <<databaseInstance, connections>>
     ELSE IF ~urlSet
     THEN /\ calls' = Append(calls, [call |-> "getConnection", returned |-> NoConnection])
          /\ UNCHANGED <<databaseInstance, connections>>
     ELSE /\ connections' = Append(connections, TRUE)
          /\ databaseInstance' = Len(connections) + 1
          /\ calls' = Append(calls, [call |-> "getConnection", returned |-> Len(connections) + 1])
  /\ UNCHANGED sessionVars

CloseConnection ==
  /\ pc = "db"
  /\ Len(calls) < MaxCalls
  /\ closeConnection
  /\ calls' = Append(calls, [call |-> "closeConnection", returned |-> NoConnection])
  /\ UNCHANGED sessionVars

ResetConnection ==
  /\ pc = "db"
  /\ Len(calls) < MaxCalls
  /\ closeConnection
  /\ calls' = Append(calls, [call |-> "resetConnection", returned |-> NoConnection])
  /\ UNCHANGED sessionVars

NextDb ==
  \/ \E urlSet \in BOOLEAN : GetConnection(urlSet)
  \/ CloseConnection
  \/ ResetConnection

SpecDb == InitDb /\ [][NextDb]_vars

\* the calls that returned a connection, and the calls that close
Got(n) == calls[n].call = "getConnection" /\ calls[n].returned # NoConnection

Closes(n) == calls[n].call \in {"closeConnection", "resetConnection"}

OpenConnections == {c \in 1..Len(connections) : connections[c]}

\* C30: the only open connection is the one databaseInstance holds, and that
\* one is open; two getConnection calls with no close between them return the
\* same instance; after a closeConnection or resetConnection nothing is held
\* and nothing is open; a getConnection that follows a close returns a
\* connection no earlier call returned; only a getConnection creates a
\* connection, so a close with nothing held changes nothing.
C30_SingleConnection ==
  /\ OpenConnections = (IF databaseInstance = NoConnection THEN {} ELSE {databaseInstance})
  /\ \A i, j \in 1..Len(calls) :
       (i < j /\ Got(i) /\ Got(j)) =>
         IF \E k \in (i + 1)..(j - 1) : Closes(k)
         THEN calls[j].returned > calls[i].returned
         ELSE calls[j].returned = calls[i].returned
  /\ (calls # <<>> /\ Closes(Len(calls))) =>
       databaseInstance = NoConnection /\ OpenConnections = {}
  /\ (calls # <<>> /\ Got(Len(calls))) =>
       databaseInstance = calls[Len(calls)].returned
  /\ Len(connections) = Cardinality({calls[n].returned : n \in {m \in 1..Len(calls) : Got(m)}})

C30_Witness ==
  /\ Len(calls) = 5
  /\ Got(1) /\ Got(2) /\ Closes(3) /\ Closes(4) /\ Got(5)
  /\ calls[1].returned = calls[2].returned
  /\ calls[5].returned = 2
  /\ connections = <<FALSE, TRUE>>

=============================================================================
